---- MODULE Spec2Model ----
(***************************************************************************)
(* Loan ledger of the village library: the borrow-request handlers         *)
(* (server/src/handlers/borrow_requests.ts), the user handlers             *)
(* (server/src/handlers/users.ts) and login (server/src/handlers/auth.ts)  *)
(* over the users, books and borrow_requests tables                        *)
(* (server/src/db/schema.ts).                                              *)
(*                                                                         *)
(* Spec      runs the handlers one call at a time, each call one step.     *)
(* SpecUsers runs the user handlers next to the requests and approvals,    *)
(*           one call at a time.                                           *)
(* SpecConc  runs two calls at once, one awaited store statement per step, *)
(*           and lets any statement fail.                                  *)
(***************************************************************************)
EXTENDS Integers, Sequences, FiniteSets, TLC

VARIABLES
    users,         \* usersTable: id -> row
    userSeq,       \* the last value of the serial users.id
    membersCreated,\* members created so far, the deleted ones included
    books,         \* booksTable: id -> row
    requests,      \* borrowRequestsTable: the rows in id order (ids are serial)
    now,           \* the clock new Date() reads, in days
    calls,         \* handler calls made so far
    last,          \* the last call run alone: its handler and the error it threw
    everApproved,  \* ids of the requests that are or have been Approved
    procs          \* the overlapping callers: position and locals of each call

vars == <<users, userSeq, membersCreated, books, requests, now, calls, last,
          everApproved, procs>>

(***************************************************************************)
(* Bounds of the model.                                                    *)
(***************************************************************************)
\* handler calls in one run
MaxCalls == 4

(***************************************************************************)
(* Values.                                                                 *)
(***************************************************************************)
\* a nullable column or input holding null (ids are >= 1, dates >= 0)
Null == -1
\* an optional input that is absent (undefined)
Undefined == -2
\* a nullable text holding null
NullText == "<null>"
\* an optional text input that is absent
UndefinedText == "<undefined>"

\* borrowRequestStatusEnum
Pending == "menunggu"
Approved == "disetujui"
Rejected == "ditolak"
Completed == "selesai"
BorrowRequestStatus == {Pending, Approved, Rejected, Completed}

\* dueDate.setDate(dueDate.getDate() + 14)
LoanDays == 14

\* ids the callers pass: the seeded rows, and one id no row has
MemberA == 1
MemberB == 2
AdminC == 3
BookIds == {1, 2}
\* the total_stock each seeded book is created with
SeedStock == (1 :> 1) @@ (2 :> 2)
MissingId == 9
UserIdInputs == {MemberA, MemberB, AdminC, MissingId}
BookIdInputs == BookIds \cup {MissingId}
CreateNotes == {NullText, "please"}
\* the optional inputs (notes, approved_by) the admin calls are run with
UpdateOptionals ==
    {<<UndefinedText, Undefined>>, <<"by admin", AdminC>>, <<UndefinedText, MissingId>>}
ReturnNotes == {NullText, "", "returned"}
\* bookStatusEnum
BookStatus == {"tersedia", "dipinjam", "rusak", "hilang"}
\* every input of the handlers, for the statements about any call
CreateInputs ==
    [member_id : UserIdInputs, book_id : BookIdInputs, notes : CreateNotes]
\* readings of the clock, in days
ClockReadings == {0, 30}
\* the optional inputs of the statements about any admin call: those above,
\* and both given as null
AnyUpdateOptionals == UpdateOptionals \cup {<<NullText, Null>>}
\* input?.page || 1 and input?.limit || 10
DefaultPage == 1
DefaultLimit == 10
\* borrowRequestSearchInputSchema: each field is optional; member_id is any
\* number, page and limit are positive integers
SearchInputs ==
    [member_id : {Undefined, 0, MemberA, MemberB},
     status    : {UndefinedText} \cup BorrowRequestStatus,
     page      : {Undefined, 1, 2},
     limit     : {Undefined, 1, 2}]
\* userRoleEnum
UserRole == {"admin", "member"}
\* the users the store is seeded with, in the order of their creation: they
\* get the ids MemberA, MemberB and AdminC
SeedUserInputs ==
    <<[username |-> "ana",   password |-> "rahasia1", role |-> "member"],
      [username |-> "budi",  password |-> "rahasia1", role |-> "member"],
      [username |-> "citra", password |-> "rahasia1", role |-> "admin"]>>
\* the inputs of the createUser calls: a new name or a name in use
CreateUserInputs ==
    [username : {"dina", "budi"}, password : {"rahasia1"}, role : UserRole]
\* the optional inputs (username, password, role) the updateUser calls are
\* run with: a change of role, and a change of name and password to a name
\* in use
UpdateUserOptionals ==
    {<<UndefinedText, UndefinedText, "admin">>,
     <<UndefinedText, UndefinedText, "member">>,
     <<"budi", "rahasia2", UndefinedText>>}
\* the inputs the overlapping calls are run with
ConcMembers == {MemberA, MemberB}
ConcBooks == BookIds
ConcStatuses == BorrowRequestStatus

(***************************************************************************)
(* The store's statements, each one awaited db call of the handlers.       *)
(***************************************************************************)
\* createBook: a new book has all its stock available
createBook(total_stock, t) ==
    [total_stock     |-> total_stock,
     available_stock |-> total_stock,
     status          |-> "tersedia",
     updated_at      |-> t]

\* db.select().from(booksTable).where(eq(booksTable.id, id))
SelectBook(bks, id) ==
    IF id \in DOMAIN bks THEN <<bks[id]>> ELSE <<>>

\* db.select().from(usersTable).where(and(eq(id), eq(role, 'member')))
SelectMember(us, id) ==
    IF id \in DOMAIN us /\ us[id].role = "member" THEN <<us[id]>> ELSE <<>>

\* a select of the existing requests that looks for 'menunggu' only
SelectPendingRequests(reqs, member_id, book_id) ==
    {i \in DOMAIN reqs : /\ reqs[i].member_id = member_id
                         /\ reqs[i].book_id = book_id
                         /\ reqs[i].status = Pending}

\* ids of the requests of (member, book) with status IN ('menunggu', 'disetujui')
SelectActiveRequests(reqs, member_id, book_id) ==
    {i \in DOMAIN reqs : /\ reqs[i].member_id = member_id
                         /\ reqs[i].book_id = book_id
                         /\ reqs[i].status \in {Pending, Approved}}

\* an insert that drops the notes of the input
InsertRequestWithoutNotes(reqs, input, t) ==
    Append(reqs, [id            |-> Len(reqs) + 1,
                  member_id     |-> input.member_id,
                  book_id       |-> input.book_id,
                  request_date  |-> t,
                  approved_date |-> Null,
                  due_date      |-> Null,
                  return_date   |-> Null,
                  status        |-> Pending,
                  notes         |-> NullText,
                  approved_by   |-> Null,
                  created_at    |-> t,
                  updated_at    |-> t])

\* db.insert(borrowRequestsTable).values({member_id, book_id, notes, status})
InsertRequest(reqs, input, t) ==
    Append(reqs, [id            |-> Len(reqs) + 1,
                  member_id     |-> input.member_id,
                  book_id       |-> input.book_id,
                  request_date  |-> t,
                  approved_date |-> Null,
                  due_date      |-> Null,
                  return_date   |-> Null,
                  status        |-> Pending,
                  notes         |-> input.notes,
                  approved_by   |-> Null,
                  created_at    |-> t,
                  updated_at    |-> t])

\* db.select().from(borrowRequestsTable).where(eq(borrowRequestsTable.id, id))
SelectRequest(reqs, id) ==
    IF id \in DOMAIN reqs THEN <<reqs[id]>> ELSE <<>>

\* a select of the request to cancel that does not look at its member
SelectRequestOfAnyMember(reqs, id, member_id) ==
    IF id \in DOMAIN reqs THEN <<reqs[id]>> ELSE <<>>

\* ... .where(and(eq(borrowRequestsTable.id, id), eq(member_id, memberId)))
SelectOwnRequest(reqs, id, member_id) ==
    IF id \in DOMAIN reqs /\ reqs[id].member_id = member_id
    THEN <<reqs[id]>> ELSE <<>>

\* an update of a request that also clears its member
UpdateRequestUnassigningMember(reqs, id, updateData) ==
    IF id \in DOMAIN reqs
    THEN [reqs EXCEPT ![id] = [f \in DOMAIN @ |->
              IF f \in DOMAIN updateData THEN updateData[f]
              ELSE IF f = "member_id" THEN Null ELSE @[f]]]
    ELSE reqs

\* an update of the requests without its where clause: every row is set
UpdateEveryRequest(reqs, id, updateData) ==
    [i \in DOMAIN reqs |-> [f \in DOMAIN reqs[i] |->
        IF f \in DOMAIN updateData THEN updateData[f] ELSE reqs[i][f]]]

\* db.update(borrowRequestsTable).set(updateData).where(eq(id))
UpdateRequest(reqs, id, updateData) ==
    IF id \in DOMAIN reqs
    THEN [reqs EXCEPT ![id] = [f \in DOMAIN @ |->
              IF f \in DOMAIN updateData THEN updateData[f] ELSE @[f]]]
    ELSE reqs

\* approved_by: integer('approved_by').references(() => usersTable.id): the
\* store refuses an update that sets approved_by to the id of no user
ViolatesApproverKey(us, updateData) ==
    /\ "approved_by" \in DOMAIN updateData
    /\ updateData["approved_by"] # Null
    /\ updateData["approved_by"] \notin DOMAIN us

\* the error execute() throws when the store refuses a statement
ForeignKeyError == "violates foreign key constraint"
\* the error execute() throws when the store cannot be reached
StoreFailure == "store failure"

\* a decrement that takes two copies
DecreaseStockByTwo(bks, id, t) ==
    IF id \in DOMAIN bks
    THEN [bks EXCEPT ![id].available_stock = @ - 2, ![id].updated_at = t]
    ELSE bks

\* set({available_stock: sql`available_stock - 1`, updated_at}).where(eq(id))
DecreaseStock(bks, id, t) ==
    IF id \in DOMAIN bks
    THEN [bks EXCEPT ![id].available_stock = @ - 1, ![id].updated_at = t]
    ELSE bks

\* an increment that gives two copies back
IncreaseStockByTwo(bks, id, t) ==
    IF id \in DOMAIN bks
    THEN [bks EXCEPT ![id].available_stock = @ + 2, ![id].updated_at = t]
    ELSE bks

\* set({available_stock: sql`available_stock + 1`, updated_at}).where(eq(id))
IncreaseStock(bks, id, t) ==
    IF id \in DOMAIN bks
    THEN [bks EXCEPT ![id].available_stock = @ + 1, ![id].updated_at = t]
    ELSE bks

(***************************************************************************)
(* The handlers' own computations.                                         *)
(***************************************************************************)
\* updateData of an updateBorrowRequestStatus that forgets the due date
StatusUpdateDataWithoutDueDate(input, t) ==
    LET fields == {"status", "updated_at"}
                  \cup (IF input.notes # UndefinedText THEN {"notes"} ELSE {})
                  \cup (IF input.approved_by # Undefined THEN {"approved_by"} ELSE {})
                  \cup (IF input.status = Approved THEN {"approved_date"} ELSE {})
    IN [f \in fields |->
          CASE f = "status"        -> input.status
            [] f = "updated_at"    -> t
            [] f = "notes"         -> input.notes
            [] f = "approved_by"   -> input.approved_by
            [] f = "approved_date" -> t]

\* updateData of an updateBorrowRequestStatus that sets the dates for every
\* target status
StatusUpdateDataAlwaysDates(input, t) ==
    LET fields == {"status", "updated_at", "approved_date", "due_date"}
                  \cup (IF input.notes # UndefinedText THEN {"notes"} ELSE {})
                  \cup (IF input.approved_by # Undefined THEN {"approved_by"} ELSE {})
    IN [f \in fields |->
          CASE f = "status"        -> input.status
            [] f = "updated_at"    -> t
            [] f = "notes"         -> input.notes
            [] f = "approved_by"   -> input.approved_by
            [] f = "approved_date" -> t
            [] f = "due_date"      -> t + LoanDays]

\* updateData of updateBorrowRequestStatus
StatusUpdateData(input, t) ==
    LET fields == {"status", "updated_at"}
                  \cup (IF input.notes # UndefinedText THEN {"notes"} ELSE {})
                  \cup (IF input.approved_by # Undefined THEN {"approved_by"} ELSE {})
                  \cup (IF input.status = Approved
                        THEN {"approved_date", "due_date"} ELSE {})
    IN [f \in fields |->
          CASE f = "status"        -> input.status
            [] f = "updated_at"    -> t
            [] f = "notes"         -> input.notes
            [] f = "approved_by"   -> input.approved_by
            [] f = "approved_date" -> t
            [] f = "due_date"      -> t + LoanDays]

\* if (input.notes): null and the empty string are falsy
Truthy(text) == text # NullText /\ text # ""

\* updateData of a returnBook that writes the notes of every input
ReturnUpdateDataAlwaysNotes(input, t) ==
    [status |-> Completed, return_date |-> t, updated_at |-> t,
     notes |-> input.notes]

\* updateData of returnBook
ReturnUpdateData(input, t) ==
    LET fields == {"status", "return_date", "updated_at"}
                  \cup (IF Truthy(input.notes) THEN {"notes"} ELSE {})
    IN [f \in fields |->
          CASE f = "status"      -> Completed
            [] f = "return_date" -> t
            [] f = "updated_at"  -> t
            [] f = "notes"       -> input.notes]

\* the set(...) of a cancelBorrowRequest that keeps the notes of the request
CancelUpdateDataKeepsNotes(t) ==
    [status |-> Rejected, updated_at |-> t]

\* the set(...) of cancelBorrowRequest
CancelUpdateData(t) ==
    [status |-> Rejected, updated_at |-> t, notes |-> "Cancelled by member"]

\* what a call leaves behind: the error thrown ("" when none) and the tables
Outcome(err, bks, reqs) == [err |-> err, books |-> bks, requests |-> reqs]

\* a createBorrowRequest that looks the member up before the book
createBorrowRequestMemberFirst(us, bks, reqs, input, t) ==
    LET bookRows == SelectBook(bks, input.book_id) IN
    IF Len(SelectMember(us, input.member_id)) = 0
    THEN Outcome("Member not found", bks, reqs)
    ELSE IF Len(bookRows) = 0 THEN Outcome("Book not found", bks, reqs)
    ELSE IF bookRows[1].available_stock <= 0 \/ bookRows[1].status # "tersedia"
    THEN Outcome("Book is not available for borrowing", bks, reqs)
    ELSE IF SelectActiveRequests(reqs, input.member_id, input.book_id) # {}
    THEN Outcome("You already have an active request for this book", bks, reqs)
    ELSE Outcome("", bks, InsertRequest(reqs, input, t))

\* a createBorrowRequest that refuses a book only below zero stock
createBorrowRequestAllowsZeroStock(us, bks, reqs, input, t) ==
    LET bookRows == SelectBook(bks, input.book_id) IN
    IF Len(bookRows) = 0 THEN Outcome("Book not found", bks, reqs)
    ELSE IF bookRows[1].available_stock < 0 \/ bookRows[1].status # "tersedia"
    THEN Outcome("Book is not available for borrowing", bks, reqs)
    ELSE IF Len(SelectMember(us, input.member_id)) = 0
    THEN Outcome("Member not found", bks, reqs)
    ELSE IF SelectActiveRequests(reqs, input.member_id, input.book_id) # {}
    THEN Outcome("You already have an active request for this book", bks, reqs)
    ELSE Outcome("", bks, InsertRequest(reqs, input, t))

\* createBorrowRequest, run alone from its first statement to its return
createBorrowRequest(us, bks, reqs, input, t) ==
    LET bookRows == SelectBook(bks, input.book_id) IN
    IF Len(bookRows) = 0 THEN Outcome("Book not found", bks, reqs)
    ELSE IF bookRows[1].available_stock <= 0 \/ bookRows[1].status # "tersedia"
    THEN Outcome("Book is not available for borrowing", bks, reqs)
    ELSE IF Len(SelectMember(us, input.member_id)) = 0
    THEN Outcome("Member not found", bks, reqs)
    ELSE IF SelectActiveRequests(reqs, input.member_id, input.book_id) # {}
    THEN Outcome("You already have an active request for this book", bks, reqs)
    ELSE Outcome("", bks, InsertRequest(reqs, input, t))

\* an updateBorrowRequestStatus that approves a Pending request only
updateBorrowRequestStatusOfPendingOnly(us, bks, reqs, input, t) ==
    LET rows == SelectRequest(reqs, input.id) IN
    IF Len(rows) = 0 THEN Outcome("Borrow request not found", bks, reqs)
    ELSE IF input.status = Approved /\ rows[1].status # Pending
    THEN Outcome("Only pending requests can be approved", bks, reqs)
    ELSE LET updateData == StatusUpdateData(input, t)
             bks1 == IF input.status = Approved
                     THEN DecreaseStock(bks, rows[1].book_id, t)
                     ELSE bks
         IN IF ViolatesApproverKey(us, updateData)
            THEN Outcome(ForeignKeyError, bks1, reqs)
            ELSE Outcome("", bks1, UpdateRequest(reqs, input.id, updateData))

\* updateBorrowRequestStatus, run alone
updateBorrowRequestStatus(us, bks, reqs, input, t) ==
    LET rows == SelectRequest(reqs, input.id) IN
    IF Len(rows) = 0 THEN Outcome("Borrow request not found", bks, reqs)
    ELSE LET updateData == StatusUpdateData(input, t)
             bks1 == IF input.status = Approved
                     THEN DecreaseStock(bks, rows[1].book_id, t)
                     ELSE bks
         IN IF ViolatesApproverKey(us, updateData)
            THEN Outcome(ForeignKeyError, bks1, reqs)
            ELSE Outcome("", bks1, UpdateRequest(reqs, input.id, updateData))

\* a returnBook that looks at the status before the return date
returnBookStatusFirst(bks, reqs, input, t) ==
    LET rows == SelectRequest(reqs, input.request_id) IN
    IF Len(rows) = 0 THEN Outcome("Borrow request not found", bks, reqs)
    ELSE IF rows[1].status # Approved
    THEN Outcome("Only approved requests can be returned", bks, reqs)
    ELSE IF rows[1].return_date # Null
    THEN Outcome("Book has already been returned", bks, reqs)
    ELSE Outcome("",
                 IncreaseStock(bks, rows[1].book_id, t),
                 UpdateRequest(reqs, input.request_id, ReturnUpdateData(input, t)))

\* returnBook, run alone
returnBook(bks, reqs, input, t) ==
    LET rows == SelectRequest(reqs, input.request_id) IN
    IF Len(rows) = 0 THEN Outcome("Borrow request not found", bks, reqs)
    ELSE IF rows[1].return_date # Null
    THEN Outcome("Book has already been returned", bks, reqs)
    ELSE IF rows[1].status # Approved
    THEN Outcome("Only approved requests can be returned", bks, reqs)
    ELSE Outcome("",
                 IncreaseStock(bks, rows[1].book_id, t),
                 UpdateRequest(reqs, input.request_id, ReturnUpdateData(input, t)))

\* a cancelBorrowRequest that gives a copy back to the book
cancelBorrowRequestRestocks(bks, reqs, requestId, memberId, t) ==
    LET rows == SelectOwnRequest(reqs, requestId, memberId) IN
    IF Len(rows) = 0
    THEN Outcome("Borrow request not found or you do not have permission to cancel it",
                 bks, reqs)
    ELSE IF rows[1].status # Pending
    THEN Outcome("Only pending requests can be cancelled", bks, reqs)
    ELSE Outcome("", IncreaseStock(bks, rows[1].book_id, t),
                 UpdateRequest(reqs, requestId, CancelUpdateData(t)))

\* a cancelBorrowRequest that also takes an Approved request
cancelBorrowRequestOfApproved(bks, reqs, requestId, memberId, t) ==
    LET rows == SelectOwnRequest(reqs, requestId, memberId) IN
    IF Len(rows) = 0
    THEN Outcome("Borrow request not found or you do not have permission to cancel it",
                 bks, reqs)
    ELSE IF rows[1].status \notin {Pending, Approved}
    THEN Outcome("Only pending requests can be cancelled", bks, reqs)
    ELSE Outcome("", bks, UpdateRequest(reqs, requestId, CancelUpdateData(t)))

\* cancelBorrowRequest, run alone
cancelBorrowRequest(bks, reqs, requestId, memberId, t) ==
    LET rows == SelectOwnRequest(reqs, requestId, memberId) IN
    IF Len(rows) = 0
    THEN Outcome("Borrow request not found or you do not have permission to cancel it",
                 bks, reqs)
    ELSE IF rows[1].status # Pending
    THEN Outcome("Only pending requests can be cancelled", bks, reqs)
    ELSE Outcome("", bks, UpdateRequest(reqs, requestId, CancelUpdateData(t)))

\* what the caller of cancelBorrowRequest gets: the handler's one return
\* statement is return true, every other path throws
cancelBorrowRequestResult(bks, reqs, requestId, memberId, t) ==
    IF cancelBorrowRequest(bks, reqs, requestId, memberId, t).err # ""
    THEN "throws" ELSE "true"

(***************************************************************************)
(* The user handlers (server/src/handlers/users.ts).                       *)
(***************************************************************************)
\* a null member_number
NullMemberNumber == <<>>
\* padStart(3, '0')
MemberNumberWidth == 3

\* the error execute() throws on a second row with a username
UniqueError == "violates unique constraint"

\* hashPassword: Buffer.from(password).toString('base64')
hashPassword(password) == <<"base64", password>>

\* the users with role 'member'
Members(us) == {u \in DOMAIN us : us[u].role = "member"}

\* n.toString(): the decimal digits of n
RECURSIVE ToDigits(_)
ToDigits(n) == IF n < 10 THEN <<n>> ELSE Append(ToDigits(n \div 10), n % 10)

\* text.padStart(width, fill): fill is put in front up to the width, a
\* longer text is left as it is
RECURSIVE PadStart(_, _, _)
PadStart(text, width, fill) ==
    IF Len(text) >= width THEN text ELSE PadStart(<<fill>> \o text, width, fill)

\* generateMemberNumber: 'MEMBER' and the count of members plus one
generateMemberNumber(us) ==
    <<"MEMBER">> \o PadStart(ToDigits(Cardinality(Members(us)) + 1),
                             MemberNumberWidth, 0)

\* what a user call leaves behind: the error thrown ("" when none), what it
\* returns, the users table and the serial
UserOutcome(err, result, us, seq) ==
    [err |-> err, result |-> result, users |-> us, userSeq |-> seq]

\* createUser; the insert takes the next id even when the store refuses it
createUser(us, seq, input, t) ==
    LET memberNumber == IF input.role = "member"
                        THEN generateMemberNumber(us)
                        ELSE NullMemberNumber
        row == [id            |-> seq + 1,
                username      |-> input.username,
                password      |-> hashPassword(input.password),
                role          |-> input.role,
                member_number |-> memberNumber]
    IN IF \E u \in DOMAIN us : us[u].username = input.username
       THEN UserOutcome(UniqueError, <<>>, us, seq + 1)
       ELSE UserOutcome("", <<row>>, us @@ ((seq + 1) :> row), seq + 1)

\* updateValues of updateUser: the fields of the input that are not undefined
UserUpdateValues(input) ==
    LET fields == (IF input.username # UndefinedText THEN {"username"} ELSE {})
                  \cup (IF input.password # UndefinedText THEN {"password"} ELSE {})
                  \cup (IF input.role # UndefinedText THEN {"role"} ELSE {})
    IN [f \in fields |->
          CASE f = "username" -> input.username
            [] f = "password" -> hashPassword(input.password)
            [] f = "role"     -> input.role]

\* updateUser: one update by id, which the store refuses when it gives the
\* row the username of another row; no row updated is 'User not found'
updateUser(us, input, seq) ==
    LET updateValues == UserUpdateValues(input) IN
    IF input.id \notin DOMAIN us
    THEN UserOutcome("User not found", <<>>, us, seq)
    ELSE IF /\ "username" \in DOMAIN updateValues
            /\ \E u \in DOMAIN us \ {input.id} : us[u].username = updateValues["username"]
    THEN UserOutcome(UniqueError, <<>>, us, seq)
    ELSE LET row == [f \in DOMAIN us[input.id] |->
                        IF f \in DOMAIN updateValues THEN updateValues[f]
                        ELSE us[input.id][f]]
         IN UserOutcome("", <<row>>, [us EXCEPT ![input.id] = row], seq)

\* a deleteUser that does not look at the borrow requests
deleteUserUnchecked(us, reqs, id, seq) ==
    IF \E i \in DOMAIN reqs : id \in {reqs[i].member_id, reqs[i].approved_by}
    THEN UserOutcome(ForeignKeyError, <<>>, us, seq)
    ELSE UserOutcome("", <<id \in DOMAIN us>>,
                     [u \in DOMAIN us \ {id} |-> us[u]], seq)

\* deleteUser; borrow_requests.approved_by references users.id, so the store
\* refuses to delete a user some request was approved by
deleteUser(us, reqs, id, seq) ==
    IF \E i \in DOMAIN reqs : reqs[i].member_id = id
    THEN UserOutcome("Cannot delete user with active borrow requests", <<>>, us, seq)
    ELSE IF id \in DOMAIN us /\ \E i \in DOMAIN reqs : reqs[i].approved_by = id
    THEN UserOutcome(ForeignKeyError, <<>>, us, seq)
    ELSE UserOutcome("", <<id \in DOMAIN us>>,
                     [u \in DOMAIN us \ {id} |-> us[u]], seq)

\* the store after the createUser calls of the seeds
RECURSIVE CreateUsers(_, _)
CreateUsers(inputs, k) ==
    IF k = 0 THEN UserOutcome("", <<>>, <<>>, 0)
    ELSE LET before == CreateUsers(inputs, k - 1)
         IN createUser(before.users, before.userSeq, inputs[k], 0)

SeedUsers == CreateUsers(SeedUserInputs, Len(SeedUserInputs))

(***************************************************************************)
(* The authentication handler (server/src/handlers/auth.ts).               *)
(***************************************************************************)
\* hashPassword of auth.ts: createHash('sha256').update(password).digest('hex')
authHashPassword(password) == <<"sha256", password>>

\* verifyPassword: the hash of the input is compared with the stored text
verifyPassword(password, hashedPassword) == authHashPassword(password) = hashedPassword

\* db.select().from(usersTable).where(eq(usersTable.username, username));
\* usernames are unique, so there is one row at most
SelectUserByName(us, username) ==
    IF \E u \in DOMAIN us : us[u].username = username
    THEN <<us[CHOOSE u \in DOMAIN us : us[u].username = username]>>
    ELSE <<>>

\* const { password: _, ...userWithoutPassword } = user
WithoutPassword(user) == [f \in DOMAIN user \ {"password"} |-> user[f]]

\* login: the response; user is empty for null
login(us, input) ==
    LET rows == SelectUserByName(us, input.username) IN
    IF Len(rows) = 0
    THEN [success |-> FALSE, user |-> <<>>, message |-> "Username atau password salah"]
    ELSE IF ~verifyPassword(input.password, rows[1].password)
    THEN [success |-> FALSE, user |-> <<>>, message |-> "Username atau password salah"]
    ELSE [success |-> TRUE, user |-> <<WithoutPassword(rows[1])>>,
          message |-> "Login berhasil"]

(***************************************************************************)
(* The read handlers: select statements only.                              *)
(***************************************************************************)
\* what a read leaves behind: the rows it returns, and the tables as they were
ReadOutcome(data, bks, reqs) == [data |-> data, books |-> bks, requests |-> reqs]

\* .from(borrowRequestsTable).innerJoin(usersTable, member_id = users.id)
\* .innerJoin(booksTable, book_id = books.id), the approver left-joined: the
\* ids of the requests that have their member and their book
JoinedRequests(us, bks, reqs) ==
    {i \in DOMAIN reqs : reqs[i].member_id \in DOMAIN us /\ reqs[i].book_id \in DOMAIN bks}

\* x || d on an optional number: undefined and 0 are falsy
OrDefault(x, d) == IF x = Undefined \/ x = 0 THEN d ELSE x

\* Math.ceil(total / limit), limit positive
Ceil(total, limit) == (total + limit - 1) \div limit

\* the conditions of getBorrowRequests: if (input?.member_id) and
\* if (input?.status) push a condition only for a truthy value
SearchConditions(reqs, input) ==
    {i \in DOMAIN reqs :
        /\ (input.member_id # Undefined /\ input.member_id # 0)
               => reqs[i].member_id = input.member_id
        /\ (input.status # UndefinedText) => reqs[i].status = input.status}

\* getBorrowRequests: every result the call can give. The query has no ORDER
\* BY, so limit and offset cut any rows of the right number out of those
\* that match; the count query has the conditions and no join.
getBorrowRequests(us, bks, reqs, input) ==
    LET page == OrDefault(input.page, DefaultPage)
        limit == OrDefault(input.limit, DefaultLimit)
        offset == (page - 1) * limit
        rows == SearchConditions(reqs, input) \cap JoinedRequests(us, bks, reqs)
        left == IF Cardinality(rows) > offset THEN Cardinality(rows) - offset ELSE 0
        size == IF left < limit THEN left ELSE limit
        total == Cardinality(SearchConditions(reqs, input))
    IN {[data       |-> d,
         pagination |-> [page |-> page, limit |-> limit, total |-> total,
                         totalPages |-> Ceil(total, limit)],
         books      |-> bks,
         requests   |-> reqs] : d \in {x \in SUBSET rows : Cardinality(x) = size}}

\* a getOverdueBooks without isNull(borrowRequestsTable.return_date)
getOverdueBooksIgnoringReturnDate(us, bks, reqs, t) ==
    ReadOutcome({i \in JoinedRequests(us, bks, reqs) :
                    /\ reqs[i].status = Approved
                    /\ reqs[i].due_date # Null
                    /\ reqs[i].due_date < t},
                bks, reqs)

\* getOverdueBooks: the ids of the rows returned (a comparison with a null
\* due_date is not true)
getOverdueBooks(us, bks, reqs, t) ==
    ReadOutcome({i \in JoinedRequests(us, bks, reqs) :
                    /\ reqs[i].status = Approved
                    /\ reqs[i].return_date = Null
                    /\ reqs[i].due_date # Null
                    /\ reqs[i].due_date < t},
                bks, reqs)

(***************************************************************************)
(* State.                                                                  *)
(***************************************************************************)
\* requests that are or have been in Approved status (history of requests)
Track(reqs) ==
    everApproved \cup {i \in DOMAIN reqs : reqs[i].status = Approved}

RequestIdInputs == 1 .. (Len(requests) + 1)

\* the run has a call left: the statements about any call are about the
\* calls of the runs, which are MaxCalls long
CallLeft == calls < MaxCalls

\* every input of updateBorrowRequestStatus and of returnBook
UpdateInputs ==
    {[id |-> id, status |-> status, notes |-> o[1], approved_by |-> o[2]] :
        id \in RequestIdInputs, status \in BorrowRequestStatus,
        o \in AnyUpdateOptionals}
ReturnInputs == [request_id : RequestIdInputs, notes : ReturnNotes]
\* the inputs of updateBorrowRequestStatus with one target status
UpdateInputsTo(status) == {input \in UpdateInputs : input.status = status}

Procs == {1, 2}

\* a caller with no call in flight; op, input and err describe its last call
Idle == [pc |-> "idle", op |-> "none", input |-> <<>>, book_id |-> Null, t |-> 0,
         err |-> "", wrote |-> FALSE, overlap |-> FALSE]

Init ==
    /\ users = SeedUsers.users
    /\ userSeq = SeedUsers.userSeq
    /\ membersCreated = Cardinality(Members(SeedUsers.users))
    /\ now = 0
    /\ books = [b \in BookIds |-> createBook(SeedStock[b], 0)]
    /\ requests = <<>>
    /\ calls = 0
    /\ last = [op |-> "none", err |-> ""]
    /\ everApproved = {}
    /\ procs = [p \in Procs |-> Idle]

\* a finished call: its tables written back, its call and error recorded
Finish(op, out) ==
    /\ calls' = calls + 1
    /\ books' = out.books
    /\ requests' = out.requests
    /\ everApproved' = Track(out.requests)
    /\ last' = [op |-> op, err |-> out.err]
    /\ UNCHANGED <<users, userSeq, membersCreated, now, procs>>

CreateBorrowRequest ==
    /\ calls < MaxCalls
    /\ \E m \in UserIdInputs, b \in BookIdInputs, n \in CreateNotes :
           LET input == [member_id |-> m, book_id |-> b, notes |-> n]
           IN Finish("createBorrowRequest",
                     createBorrowRequest(users, books, requests, input, now))

UpdateBorrowRequestStatus ==
    /\ calls < MaxCalls
    /\ \E i \in RequestIdInputs, s \in BorrowRequestStatus, o \in UpdateOptionals :
           LET input == [id |-> i, status |-> s, notes |-> o[1], approved_by |-> o[2]]
           IN Finish("updateBorrowRequestStatus",
                     updateBorrowRequestStatus(users, books, requests, input, now))

ReturnBook ==
    /\ calls < MaxCalls
    /\ \E i \in RequestIdInputs, n \in ReturnNotes :
           LET input == [request_id |-> i, notes |-> n]
           IN Finish("returnBook",
                     returnBook(books, requests, input, now))

CancelBorrowRequest ==
    /\ calls < MaxCalls
    /\ \E i \in RequestIdInputs, m \in UserIdInputs :
           LET input == [requestId |-> i, memberId |-> m]
           IN Finish("cancelBorrowRequest",
                     cancelBorrowRequest(books, requests, i, m, now))

Next ==
    \/ CreateBorrowRequest
    \/ UpdateBorrowRequestStatus
    \/ ReturnBook
    \/ CancelBorrowRequest

Spec == Init /\ [][Next]_vars

(***************************************************************************)
(* The user store next to the ledger: users are created and deleted while  *)
(* members request books and requests are approved.                        *)
(***************************************************************************)
UserIdsInUse == 1 .. (userSeq + 1)

\* a finished user call: the users table and the serial written back
FinishUser(op, out, created) ==
    /\ calls' = calls + 1
    /\ users' = out.users
    /\ userSeq' = out.userSeq
    /\ membersCreated' = membersCreated + created
    /\ last' = [op |-> op, err |-> out.err]
    /\ UNCHANGED <<books, requests, now, everApproved, procs>>

CreateUser ==
    /\ calls < MaxCalls
    /\ \E input \in CreateUserInputs :
           LET out == createUser(users, userSeq, input, now)
           IN FinishUser("createUser", out,
                         IF out.err = "" /\ input.role = "member" THEN 1 ELSE 0)

DeleteUser ==
    /\ calls < MaxCalls
    /\ \E id \in UserIdsInUse :
           FinishUser("deleteUser", deleteUser(users, requests, id, userSeq), 0)

UpdateUser ==
    /\ calls < MaxCalls
    /\ \E id \in UserIdsInUse, o \in UpdateUserOptionals :
           LET input == [id |-> id, username |-> o[1], password |-> o[2], role |-> o[3]]
           IN FinishUser("updateUser", updateUser(users, input, userSeq), 0)

NextUsers ==
    \/ CreateUser
    \/ UpdateUser
    \/ DeleteUser
    \/ CreateBorrowRequest
    \/ UpdateBorrowRequestStatus

SpecUsers == Init /\ [][NextUsers]_vars

(***************************************************************************)
(* Two callers, one awaited statement per step.  A caller's record holds   *)
(* the handler's locals: book_id is currentRequest.book_id, the only field *)
(* of the row read after the checks; t is the handler's new Date().        *)
(* wrote (has this call changed a row) and overlap (was the other caller   *)
(* in flight during this call) record the history of the call.             *)
(***************************************************************************)
InFlight(p) == procs[p].pc # "idle"

\* the call returns or throws: err is "" on a return.  The record of the
\* call is kept when another call overlapped it or the store failed it
End(rec, err) ==
    IF rec.overlap \/ err \in {StoreFailure, ForeignKeyError}
    THEN [rec EXCEPT !.pc = "idle", !.err = err]
    ELSE Idle

\* caller p's record once its statement has changed a row
Wrote(p) == [procs[p] EXCEPT !.wrote = TRUE]

Call(p) ==
    /\ ~InFlight(p)
    /\ calls < MaxCalls
    /\ calls' = calls + 1
    /\ \E c \in
          {[op |-> "createBorrowRequest", pc |-> "selectBook",
            input |-> [member_id |-> m, book_id |-> b, notes |-> NullText]] :
             m \in ConcMembers, b \in ConcBooks}
          \cup
          {[op |-> "updateBorrowRequestStatus", pc |-> "selectRequest",
            input |-> [id |-> i, status |-> s, notes |-> UndefinedText,
                       approved_by |-> Undefined]] :
             i \in DOMAIN requests, s \in ConcStatuses}
          \cup
          {[op |-> "returnBook", pc |-> "selectRequest",
            input |-> [request_id |-> i, notes |-> NullText]] :
             i \in DOMAIN requests}
          \cup
          {[op |-> "cancelBorrowRequest", pc |-> "selectRequest",
            input |-> [requestId |-> i, memberId |-> m]] :
             i \in DOMAIN requests, m \in ConcMembers} :
        LET busy == \E q \in Procs \ {p} : InFlight(q) IN
        procs' = [q \in Procs |->
                    IF q = p
                    THEN [pc |-> c.pc, op |-> c.op, input |-> c.input,
                          book_id |-> Null, t |-> now, err |-> "",
                          wrote |-> FALSE, overlap |-> busy]
                    ELSE IF InFlight(q) THEN [procs[q] EXCEPT !.overlap = TRUE]
                    ELSE procs[q]]
    /\ UNCHANGED <<users, userSeq, membersCreated, books, requests, now, last, everApproved>>

\* a step of caller p that leaves the tables alone
Local(p, rec) ==
    /\ procs' = [procs EXCEPT ![p] = rec]
    /\ UNCHANGED <<users, userSeq, membersCreated, books, requests, now, calls, last, everApproved>>

\* a step of caller p that writes the tables
Write(p, rec, bks, reqs) ==
    /\ procs' = [procs EXCEPT ![p] = rec]
    /\ books' = bks
    /\ requests' = reqs
    /\ everApproved' = Track(reqs)
    /\ UNCHANGED <<users, userSeq, membersCreated, now, calls, last>>

At(p, op, pc) == procs[p].op = op /\ procs[p].pc = pc

CreateSelectBook(p) ==
    /\ At(p, "createBorrowRequest", "selectBook")
    /\ LET bookRows == SelectBook(books, procs[p].input.book_id) IN
       IF Len(bookRows) = 0 THEN Local(p, End(procs[p], "Book not found"))
       ELSE IF bookRows[1].available_stock <= 0 \/ bookRows[1].status # "tersedia"
       THEN Local(p, End(procs[p], "Book is not available for borrowing"))
       ELSE Local(p, [procs[p] EXCEPT !.pc = "selectMember"])

CreateSelectMember(p) ==
    /\ At(p, "createBorrowRequest", "selectMember")
    /\ IF Len(SelectMember(users, procs[p].input.member_id)) = 0
       THEN Local(p, End(procs[p], "Member not found"))
       ELSE Local(p, [procs[p] EXCEPT !.pc = "selectExisting"])

CreateSelectExisting(p) ==
    /\ At(p, "createBorrowRequest", "selectExisting")
    /\ IF SelectActiveRequests(requests, procs[p].input.member_id,
                               procs[p].input.book_id) # {}
       THEN Local(p, End(procs[p], "You already have an active request for this book"))
       ELSE Local(p, [procs[p] EXCEPT !.pc = "insert"])

CreateInsert(p) ==
    /\ At(p, "createBorrowRequest", "insert")
    /\ Write(p, End(Wrote(p), ""), books, InsertRequest(requests, procs[p].input, now))

UpdateSelectRequest(p) ==
    /\ At(p, "updateBorrowRequestStatus", "selectRequest")
    /\ LET rows == SelectRequest(requests, procs[p].input.id) IN
       IF Len(rows) = 0 THEN Local(p, End(procs[p], "Borrow request not found"))
       ELSE Local(p, [procs[p] EXCEPT
                !.book_id = rows[1].book_id,
                !.t = now,
                !.pc = IF procs[p].input.status = Approved
                       THEN "decreaseStock" ELSE "updateRequest"])

UpdateDecreaseStock(p) ==
    /\ At(p, "updateBorrowRequestStatus", "decreaseStock")
    /\ Write(p, [Wrote(p) EXCEPT !.pc = "updateRequest"],
             DecreaseStock(books, procs[p].book_id, now), requests)

UpdateUpdateRequest(p) ==
    /\ At(p, "updateBorrowRequestStatus", "updateRequest")
    /\ LET updateData == StatusUpdateData(procs[p].input, procs[p].t) IN
       IF ViolatesApproverKey(users, updateData)
       THEN Local(p, End(procs[p], ForeignKeyError))
       ELSE Write(p, End(Wrote(p), ""), books,
                  UpdateRequest(requests, procs[p].input.id, updateData))

ReturnSelectRequest(p) ==
    /\ At(p, "returnBook", "selectRequest")
    /\ LET rows == SelectRequest(requests, procs[p].input.request_id) IN
       IF Len(rows) = 0 THEN Local(p, End(procs[p], "Borrow request not found"))
       ELSE IF rows[1].return_date # Null
       THEN Local(p, End(procs[p], "Book has already been returned"))
       ELSE IF rows[1].status # Approved
       THEN Local(p, End(procs[p], "Only approved requests can be returned"))
       ELSE Local(p, [procs[p] EXCEPT !.book_id = rows[1].book_id, !.t = now,
                                      !.pc = "updateRequest"])

ReturnUpdateRequest(p) ==
    /\ At(p, "returnBook", "updateRequest")
    /\ Write(p, [Wrote(p) EXCEPT !.pc = "increaseStock"], books,
             UpdateRequest(requests, procs[p].input.request_id,
                           ReturnUpdateData(procs[p].input, procs[p].t)))

ReturnIncreaseStock(p) ==
    /\ At(p, "returnBook", "increaseStock")
    /\ Write(p, End(Wrote(p), ""), IncreaseStock(books, procs[p].book_id, now), requests)

CancelSelectRequest(p) ==
    /\ At(p, "cancelBorrowRequest", "selectRequest")
    /\ LET rows == SelectOwnRequest(requests, procs[p].input.requestId,
                                    procs[p].input.memberId) IN
       IF Len(rows) = 0
       THEN Local(p, End(procs[p],
              "Borrow request not found or you do not have permission to cancel it"))
       ELSE IF rows[1].status # Pending
       THEN Local(p, End(procs[p], "Only pending requests can be cancelled"))
       ELSE Local(p, [procs[p] EXCEPT !.pc = "updateRequest"])

CancelUpdateRequest(p) ==
    /\ At(p, "cancelBorrowRequest", "updateRequest")
    /\ Write(p, End(Wrote(p), ""), books,
             UpdateRequest(requests, procs[p].input.requestId, CancelUpdateData(now)))

\* the statement caller p awaits rejects (the store is unreachable, the
\* statement times out): execute() throws and the handler rethrows
StoreFails(p) ==
    /\ InFlight(p)
    /\ Local(p, End(procs[p], StoreFailure))

NextConc ==
    \E p \in Procs :
        \/ Call(p)
        \/ CreateSelectBook(p)
        \/ CreateSelectMember(p)
        \/ CreateSelectExisting(p)
        \/ CreateInsert(p)
        \/ UpdateSelectRequest(p)
        \/ UpdateDecreaseStock(p)
        \/ UpdateUpdateRequest(p)
        \/ ReturnSelectRequest(p)
        \/ ReturnUpdateRequest(p)
        \/ ReturnIncreaseStock(p)
        \/ CancelSelectRequest(p)
        \/ CancelUpdateRequest(p)
        \/ StoreFails(p)

SpecConc == Init /\ [][NextConc]_vars

(***************************************************************************)
(* Properties of the ledger.                                               *)
(***************************************************************************)
\* the requests of book b that hold a copy: Approved and not yet returned
ApprovedLoans(b) ==
    {i \in DOMAIN requests : /\ requests[i].book_id = b
                             /\ requests[i].status = Approved
                             /\ requests[i].return_date = Null}

\* C1: after any sequence of ledger calls from a state where every book has
\* available_stock = total_stock and no request exists, each book's
\* available_stock is its total_stock minus the number of its requests that
\* are Approved and not yet returned.
StockEqualsTotalMinusApprovedLoans ==
    \A b \in DOMAIN books :
        books[b].available_stock
            = books[b].total_stock - Cardinality(ApprovedLoans(b))

\* C2: with the calls run one at a time, every (member_id, book_id) pair has
\* at most one request that is Pending or Approved.
AtMostOneActiveRequestPerPair ==
    \A m \in DOMAIN users, b \in DOMAIN books :
        Cardinality(SelectActiveRequests(requests, m, b)) <= 1

\* callers p and q have both finished a call of op, and the two calls overlapped
BothFinished(p, q, op) ==
    /\ p # q
    /\ procs[p].op = op /\ procs[q].op = op
    /\ ~InFlight(p) /\ ~InFlight(q)
    /\ procs[p].overlap /\ procs[q].overlap

\* C3: of two createBorrowRequest calls for the same (member, book) pair that
\* run concurrently, at most one succeeds and inserts a request.
ConcurrentCreatesNotBothSucceed ==
    \A p, q \in Procs :
        ( /\ BothFinished(p, q, "createBorrowRequest")
          /\ procs[p].input.member_id = procs[q].input.member_id
          /\ procs[p].input.book_id = procs[q].input.book_id )
        => ~(procs[p].err = "" /\ procs[q].err = "")

\* caller p runs, or has run overlapped, an approval of a request of book b
Approving(p, b) ==
    /\ procs[p].op = "updateBorrowRequestStatus"
    /\ procs[p].input.status = Approved
    /\ procs[p].overlap
    /\ procs[p].book_id = b

\* C4: while two approvals of two requests of the same book run concurrently,
\* the book's available_stock never goes below zero.
ConcurrentApprovalsKeepStockNonNegative ==
    \A b \in DOMAIN books :
        ( /\ Approving(1, b) /\ Approving(2, b)
          /\ procs[1].input.id # procs[2].input.id )
        => books[b].available_stock >= 0

\* C5: an approval (updateBorrowRequestStatus to Approved) or a returnBook
\* that fails at any step, a failure of its second write included, has
\* changed neither the request records nor any book's available_stock.
FailedCallChangesNothing ==
    [][ ( /\ calls' = calls + 1
          /\ last'.op \in {"updateBorrowRequestStatus", "returnBook"}
          /\ last'.err # "" )
        => (books' = books /\ requests' = requests) ]_vars

\* C6: of two returnBook calls for the same Approved request that run
\* concurrently, at most one succeeds (and the stock is incremented once).
ConcurrentReturnsNotBothSucceed ==
    \A p, q \in Procs :
        ( /\ BothFinished(p, q, "returnBook")
          /\ procs[p].input.request_id = procs[q].input.request_id )
        => ~(procs[p].err = "" /\ procs[q].err = "")

\* C7: once a request is Rejected or Completed, no later call changes its
\* status or any other of its fields.
TerminalRequestsNeverChange ==
    [][ \A i \in DOMAIN requests :
          requests[i].status \in {Rejected, Completed}
              => requests'[i] = requests[i] ]_vars

\* C8: a request has return_date set if and only if its status is Completed.
ReturnDateIffCompleted ==
    \A i \in DOMAIN requests :
        (requests[i].return_date # Null) <=> (requests[i].status = Completed)

\* C9: a request has approved_date and due_date set if and only if it is
\* Approved now or was Approved at some earlier point of its history.
ApprovalDatesIffEverApproved ==
    \A i \in DOMAIN requests :
        (requests[i].approved_date # Null /\ requests[i].due_date # Null)
            <=> (i \in everApproved)

\* C9 happens: one request was Approved and has left that status with its
\* dates kept, another was never Approved and has none
ApprovalDatesWitness ==
    \E i, j \in DOMAIN requests :
        /\ i \in everApproved
        /\ requests[i].status = Rejected
        /\ requests[i].approved_date = 0
        /\ requests[i].due_date = LoanDays
        /\ j \notin everApproved
        /\ requests[j].approved_date = Null
        /\ requests[j].due_date = Null

\* C10: every book satisfies 0 <= available_stock <= total_stock.
StockWithinBounds ==
    \A b \in DOMAIN books :
        /\ 0 <= books[b].available_stock
        /\ books[b].available_stock <= books[b].total_stock

(***************************************************************************)
(* createBorrowRequest.                                                    *)
(***************************************************************************)
\* the books table as it is, and with one book's status set by hand to each
\* value of the enum (no handler writes books.status)
BookTables ==
    {books} \cup {[books EXCEPT ![b].status = s] : b \in DOMAIN books, s \in BookStatus}

BookMissing(bks, input) == input.book_id \notin DOMAIN bks
BookUnavailable(bks, input) ==
    bks[input.book_id].available_stock <= 0 \/ bks[input.book_id].status # "tersedia"
MemberMissing(input) ==
    input.member_id \notin DOMAIN users \/ users[input.member_id].role # "member"
ActiveRequestExists(input) ==
    \E i \in DOMAIN requests :
        /\ requests[i].member_id = input.member_id
        /\ requests[i].book_id = input.book_id
        /\ requests[i].status \in {Pending, Approved}

\* C11: createBorrowRequest checks its preconditions in a fixed order and
\* reports the first that fails: book missing, else book out of stock or not
\* of status 'tersedia', else member missing or not of role member, else an
\* active (Pending or Approved) request of the same member for the same
\* book; when several fail at once the error is that of the earliest check.
CreateReportsFirstFailingCheck ==
    CallLeft =>
        \A bks \in BookTables : \A input \in CreateInputs :
            createBorrowRequest(users, bks, requests, input, now).err =
                IF BookMissing(bks, input) THEN "Book not found"
                ELSE IF BookUnavailable(bks, input)
                THEN "Book is not available for borrowing"
                ELSE IF MemberMissing(input) THEN "Member not found"
                ELSE IF ActiveRequestExists(input)
                THEN "You already have an active request for this book"
                ELSE ""

\* C11 happens: a call has failed as unavailable on a book out of stock, for
\* which a call by a non-member with an active request of a member in the
\* table fails three checks at once
CreateFirstFailingCheckWitness ==
    /\ last.op = "createBorrowRequest"
    /\ last.err = "Book is not available for borrowing"
    /\ \E b \in DOMAIN books : \E i \in DOMAIN requests :
          /\ books[b].available_stock <= 0
          /\ requests[i].book_id = b
          /\ requests[i].status = Approved
          /\ createBorrowRequest(users, books, requests,
                 [member_id |-> requests[i].member_id, book_id |-> b,
                  notes |-> NullText], now).err
               = "Book is not available for borrowing"
          /\ createBorrowRequest(users, books, requests,
                 [member_id |-> AdminC, book_id |-> b, notes |-> NullText], now).err
               = "Book is not available for borrowing"

\* every book has the same available_stock in both tables
SameStock(bks1, bks2) ==
    /\ DOMAIN bks1 = DOMAIN bks2
    /\ \A b \in DOMAIN bks1 : bks1[b].available_stock = bks2[b].available_stock

\* C12: a successful createBorrowRequest inserts exactly one new request,
\* with a fresh id, status Pending, the member_id, book_id and notes of the
\* input, and approved_date, due_date, return_date and approved_by all null;
\* it leaves the available_stock of every book unchanged.
SuccessfulCreateInsertsOnePendingRequest ==
    CallLeft =>
        \A input \in CreateInputs :
            \A out \in {createBorrowRequest(users, books, requests, input, now)} :
            out.err = "" =>
                /\ Len(out.requests) = Len(requests) + 1
                /\ \A i \in DOMAIN requests : out.requests[i] = requests[i]
                /\ LET new == out.requests[Len(out.requests)] IN
                      /\ \A i \in DOMAIN requests : requests[i].id # new.id
                      /\ new.status = Pending
                      /\ new.member_id = input.member_id
                      /\ new.book_id = input.book_id
                      /\ new.notes = input.notes
                      /\ new.approved_date = Null
                      /\ new.due_date = Null
                      /\ new.return_date = Null
                      /\ new.approved_by = Null
                /\ SameStock(out.books, books)

\* C12 happens: the last call was a successful createBorrowRequest with
\* notes, into a table that already held a request
SuccessfulCreateWitness ==
    /\ last.op = "createBorrowRequest"
    /\ last.err = ""
    /\ Len(requests) >= 2
    /\ requests[Len(requests)].status = Pending
    /\ requests[Len(requests)].notes = "please"
    /\ requests[Len(requests)].id = Len(requests)

\* C13: a createBorrowRequest call that fails creates no request and leaves
\* all requests and books unchanged; in particular a call for a book with
\* available_stock = 0 fails, as unavailable.
FailedCreateChangesNothing ==
    CallLeft =>
        \A input \in CreateInputs :
            \A out \in {createBorrowRequest(users, books, requests, input, now)} :
            /\ out.err # "" => (out.requests = requests /\ out.books = books)
            /\ ( /\ input.book_id \in DOMAIN books
                 /\ books[input.book_id].available_stock = 0 )
               => ( /\ out.err = "Book is not available for borrowing"
                    /\ out.requests = requests
                    /\ out.books = books )

\* C13 happens: the last call was a createBorrowRequest refused as
\* unavailable while a book had no copy left
FailedCreateWitness ==
    /\ last.op = "createBorrowRequest"
    /\ last.err = "Book is not available for borrowing"
    /\ \E b \in DOMAIN books : books[b].available_stock = 0

\* C14: while a request of a member for a book is Pending or Approved, a
\* further createBorrowRequest of that member for that book, valid otherwise
\* (the member is a member, the book exists, is in stock and 'tersedia'),
\* fails with 'You already have an active request for this book'.
SecondActiveRequestIsRefused ==
    CallLeft =>
        \A i \in DOMAIN requests : \A n \in CreateNotes :
            LET input == [member_id |-> requests[i].member_id,
                          book_id   |-> requests[i].book_id,
                          notes     |-> n]
                out == createBorrowRequest(users, books, requests, input, now)
            IN ( /\ requests[i].status \in {Pending, Approved}
                 /\ ~MemberMissing(input)
                 /\ ~BookMissing(books, input)
                 /\ ~BookUnavailable(books, input) )
               => ( /\ out.err = "You already have an active request for this book"
                    /\ out.requests = requests )

\* C14 happens: the last call was a createBorrowRequest refused as a
\* duplicate, while a request is Approved for a book that is still in stock
SecondActiveRequestWitness ==
    /\ last.op = "createBorrowRequest"
    /\ last.err = "You already have an active request for this book"
    /\ \E i \in DOMAIN requests :
          /\ requests[i].status = Approved
          /\ books[requests[i].book_id].available_stock > 0

(***************************************************************************)
(* updateBorrowRequestStatus.                                              *)
(***************************************************************************)
\* C15, as claimed: a successful updateBorrowRequestStatus with target
\* Approved sets the status to Approved, approved_date to the current time,
\* due_date to the current time plus 14 days, sets approved_by (not null
\* afterwards), and decrements the available_stock of the request's book by
\* exactly 1.
ApprovalSetsDatesApproverAndStock ==
    CallLeft =>
        \A input \in UpdateInputsTo(Approved) : \A t \in ClockReadings :
            \A out \in {updateBorrowRequestStatus(users, books, requests, input, t)} :
            out.err = "" =>
                LET b == requests[input.id].book_id IN
                /\ out.requests[input.id].status = Approved
                /\ out.requests[input.id].approved_date = t
                /\ out.requests[input.id].due_date = t + LoanDays
                /\ out.requests[input.id].approved_by # Null
                /\ out.books[b].available_stock = books[b].available_stock - 1

\* C15, amended: a successful updateBorrowRequestStatus with target Approved
\* sets the status to Approved, approved_date to the current time, due_date
\* to the current time plus 14 days, sets approved_by to the approved_by of
\* the input when the input has one (null included) and leaves it as it was
\* otherwise, and decrements the available_stock of the request's book by
\* exactly 1, leaving the stock of every other book as it was.
ApprovalSetsDatesAndStock ==
    CallLeft =>
        \A input \in UpdateInputsTo(Approved) : \A t \in ClockReadings :
            \A out \in {updateBorrowRequestStatus(users, books, requests, input, t)} :
            out.err = "" =>
                LET b == requests[input.id].book_id IN
                /\ out.requests[input.id].status = Approved
                /\ out.requests[input.id].approved_date = t
                /\ out.requests[input.id].due_date = t + LoanDays
                /\ out.requests[input.id].approved_by =
                       IF input.approved_by # Undefined THEN input.approved_by
                       ELSE requests[input.id].approved_by
                /\ out.books[b].available_stock = books[b].available_stock - 1
                /\ \A c \in DOMAIN books \ {b} :
                       out.books[c].available_stock = books[c].available_stock

\* C15 happens: the second call of the run has approved the only request,
\* with no approved_by in its input
ApprovalWithoutApproverWitness ==
    /\ calls = 2
    /\ Len(requests) = 1
    /\ last.op = "updateBorrowRequestStatus"
    /\ last.err = ""
    /\ requests[1].status = Approved
    /\ requests[1].approved_date = now
    /\ requests[1].due_date = now + LoanDays
    /\ requests[1].approved_by = Null
    /\ books[requests[1].book_id].available_stock
           = books[requests[1].book_id].total_stock - 1

(***************************************************************************)
(* Stock reservation.                                                      *)
(***************************************************************************)
\* C16: a book's available_stock is decreased only by
\* updateBorrowRequestStatus with target Approved and increased only by
\* returnBook: createBorrowRequest, cancelBorrowRequest and
\* updateBorrowRequestStatus with any other target leave every book's
\* available_stock as it was, an approval never increases one and returnBook
\* never decreases one (the read handlers have no statement but selects).
StockChangesOnlyByApprovalAndReturn ==
    CallLeft =>
        /\ \A input \in CreateInputs :
              SameStock(createBorrowRequest(users, books, requests, input, now).books,
                        books)
        /\ \A id \in RequestIdInputs : \A m \in UserIdInputs :
              SameStock(cancelBorrowRequest(books, requests, id, m, now).books, books)
        /\ \A input \in UpdateInputs :
              \A out \in {updateBorrowRequestStatus(users, books, requests, input, now)} :
                 IF input.status = Approved
                 THEN \A b \in DOMAIN books :
                         out.books[b].available_stock <= books[b].available_stock
                 ELSE SameStock(out.books, books)
        /\ \A input \in ReturnInputs :
              \A out \in {returnBook(books, requests, input, now)} :
                 \A b \in DOMAIN books :
                    out.books[b].available_stock >= books[b].available_stock

\* C16 happens: the last call has cancelled a request while another request
\* is Approved and holds a copy of its book
StockChangesWitness ==
    /\ last.op = "cancelBorrowRequest"
    /\ last.err = ""
    /\ \E i, j \in DOMAIN requests :
          /\ requests[i].status = Approved
          /\ books[requests[i].book_id].available_stock
                = books[requests[i].book_id].total_stock - 1
          /\ requests[j].status = Rejected
          /\ requests[j].notes = "Cancelled by member"

\* C17: after an updateBorrowRequestStatus with target Rejected, the
\* available_stock of the request's book is as it was before the call and
\* the request's approved_date and due_date are null.
RejectionLeavesStockAndNoDates ==
    CallLeft =>
        \A input \in UpdateInputsTo(Rejected) :
            \A out \in {updateBorrowRequestStatus(users, books, requests, input, now)} :
                out.err = "" =>
                    /\ SameStock(out.books, books)
                    /\ out.requests[input.id].approved_date = Null
                    /\ out.requests[input.id].due_date = Null

(***************************************************************************)
(* returnBook.                                                             *)
(***************************************************************************)
\* C18: returnBook checks its preconditions in order: no request with the id
\* fails as not found, else a return_date already set fails as already
\* returned, else a status other than Approved fails as not approved; when
\* it fails, the requests and every book's available_stock are unchanged.
ReturnReportsFirstFailingCheck ==
    CallLeft =>
        \A input \in ReturnInputs :
            \A out \in {returnBook(books, requests, input, now)} :
                /\ out.err =
                      IF input.request_id \notin DOMAIN requests
                      THEN "Borrow request not found"
                      ELSE IF requests[input.request_id].return_date # Null
                      THEN "Book has already been returned"
                      ELSE IF requests[input.request_id].status # Approved
                      THEN "Only approved requests can be returned"
                      ELSE ""
                /\ out.err # "" =>
                      (out.requests = requests /\ SameStock(out.books, books))

\* C18 happens: the last call was a returnBook refused as already returned,
\* on a table with a request that fails both the return-date and the status
\* check
ReturnFirstFailingCheckWitness ==
    /\ last.op = "returnBook"
    /\ last.err = "Book has already been returned"
    /\ \E i \in DOMAIN requests :
          /\ requests[i].return_date # Null
          /\ requests[i].status # Approved

\* C19: in every reachable state, returnBook on a request whose status is
\* Completed fails as already returned, and returnBook on a request whose
\* status is Pending fails as not approved.
ReturnOfCompletedOrPendingFails ==
    CallLeft =>
        \A input \in ReturnInputs :
            input.request_id \in DOMAIN requests =>
                \A out \in {returnBook(books, requests, input, now)} :
                    /\ requests[input.request_id].status = Completed
                          => out.err = "Book has already been returned"
                    /\ requests[input.request_id].status = Pending
                          => out.err = "Only approved requests can be returned"

\* C20: a successful returnBook sets the request's status to Completed and
\* its return_date to the current time, replaces its notes only when the
\* input has notes (with those of the input, which replace them whenever
\* they are a non-empty text), and increments the available_stock of the
\* request's book by exactly 1, leaving the stock of every other book.
SuccessfulReturnCompletesAndRestocks ==
    CallLeft =>
        \A input \in ReturnInputs : \A t \in ClockReadings :
            \A out \in {returnBook(books, requests, input, t)} :
                out.err = "" =>
                    \A old \in {requests[input.request_id]} :
                    \A new \in {out.requests[input.request_id]} :
                        /\ new.status = Completed
                        /\ new.return_date = t
                        /\ new.notes # old.notes =>
                              (input.notes # NullText /\ new.notes = input.notes)
                        /\ input.notes \notin {NullText, ""} =>
                              new.notes = input.notes
                        /\ out.books[old.book_id].available_stock
                              = books[old.book_id].available_stock + 1
                        /\ \A c \in DOMAIN books \ {old.book_id} :
                              out.books[c].available_stock = books[c].available_stock

\* C20 happens: the last call has returned the book of a request, with
\* notes, and the book has all its copies again
SuccessfulReturnWitness ==
    /\ last.op = "returnBook"
    /\ last.err = ""
    /\ \E i \in DOMAIN requests :
          /\ requests[i].status = Completed
          /\ requests[i].return_date = now
          /\ requests[i].notes = "returned"
          /\ books[requests[i].book_id].available_stock
                = books[requests[i].book_id].total_stock

(***************************************************************************)
(* cancelBorrowRequest.                                                    *)
(***************************************************************************)
\* C21: cancelBorrowRequest(request_id, member_id) on a Pending request of
\* member_id sets its status to Rejected and its notes to "Cancelled by
\* member", whatever notes it had, leaves every book's stock unchanged and
\* returns true; no call returns false: each returns true or throws.
CancelOfOwnPendingRequestRejectsIt ==
    CallLeft =>
        \A id \in RequestIdInputs : \A m \in UserIdInputs : \A t \in ClockReadings :
            \A out \in {cancelBorrowRequest(books, requests, id, m, t)} :
            \A result \in {cancelBorrowRequestResult(books, requests, id, m, t)} :
                /\ result \in {"true", "throws"}
                /\ result = "true" <=> out.err = ""
                /\ ( /\ id \in DOMAIN requests
                     /\ requests[id].member_id = m
                     /\ requests[id].status = Pending )
                   => ( /\ result = "true"
                        /\ out.requests[id].status = Rejected
                        /\ out.requests[id].notes = "Cancelled by member"
                        /\ \A j \in DOMAIN requests \ {id} :
                              out.requests[j] = requests[j]
                        /\ SameStock(out.books, books) )

\* C21 happens: the last call has cancelled a request, which is Rejected
\* with the notes of a cancellation, while another request, with notes of
\* its own, is Pending and can be cancelled
CancelOfOwnPendingRequestWitness ==
    /\ last.op = "cancelBorrowRequest"
    /\ last.err = ""
    /\ \E i, j \in DOMAIN requests :
          /\ requests[i].status = Rejected
          /\ requests[i].notes = "Cancelled by member"
          /\ requests[j].status = Pending
          /\ requests[j].notes = "please"

\* C22: cancelBorrowRequest with the id of a request of another member
\* throws the same error as with an id of no request, whatever the status of
\* that request, and changes no state: the two calls leave the caller with
\* the same outcome.
CancelHidesRequestsOfOthers ==
    CallLeft =>
        \A id \in DOMAIN requests : \A m \in UserIdInputs :
            requests[id].member_id # m =>
                \A out \in {cancelBorrowRequest(books, requests, id, m, now)} :
                    /\ out = cancelBorrowRequest(books, requests, MissingId, m, now)
                    /\ out.err # ""
                    /\ cancelBorrowRequestResult(books, requests, id, m, now)
                          = cancelBorrowRequestResult(books, requests, MissingId, m, now)
                    /\ out.requests = requests
                    /\ out.books = books

\* C22 happens: the last call was a cancelBorrowRequest refused as not found
\* or not permitted, on a table with a Pending and an Approved request of
\* two members
CancelHidesRequestsWitness ==
    /\ last.op = "cancelBorrowRequest"
    /\ last.err = "Borrow request not found or you do not have permission to cancel it"
    /\ \E i, j \in DOMAIN requests :
          /\ requests[i].status = Pending
          /\ requests[j].status = Approved
          /\ requests[i].member_id # requests[j].member_id

\* C23: cancelBorrowRequest by the member of a request whose status is not
\* Pending (Approved, Rejected or Completed) fails with 'Only pending
\* requests can be cancelled' and leaves the requests and all book stock
\* unchanged.
CancelOfOwnNonPendingRequestFails ==
    CallLeft =>
        \A id \in DOMAIN requests :
            requests[id].status # Pending =>
                \A out \in {cancelBorrowRequest(books, requests, id,
                                                requests[id].member_id, now)} :
                    /\ out.err = "Only pending requests can be cancelled"
                    /\ out.requests = requests
                    /\ SameStock(out.books, books)

\* C23 happens: the last call was a cancelBorrowRequest refused for the
\* status, on a table with an Approved request
CancelOfNonPendingWitness ==
    /\ last.op = "cancelBorrowRequest"
    /\ last.err = "Only pending requests can be cancelled"
    /\ \E i \in DOMAIN requests : requests[i].status = Approved

(***************************************************************************)
(* Scenarios.                                                              *)
(***************************************************************************)
\* C24: no approval is executed for a request whose book has
\* available_stock = 0: no step takes a copy (which only an approval does) of
\* a book that has none left.
NoApprovalAtZeroStock ==
    [][ \A b \in DOMAIN books :
          books'[b].available_stock < books[b].available_stock
              => books[b].available_stock # 0 ]_vars

\* the clock readings of three calls made one after the other
ThreeClockReadings ==
    {r \in ClockReadings \X ClockReadings \X ClockReadings :
        r[1] <= r[2] /\ r[2] <= r[3]}

\* the optional inputs of an approval whose approved_by, if any, is a user
ApprovalOptionals ==
    {o \in AnyUpdateOptionals : o[2] \in {Undefined, Null} \cup DOMAIN users}

\* C25: full lifecycle: for a book with total_stock = available_stock = 1
\* and no requests, createBorrowRequest by a member, then
\* updateBorrowRequestStatus to Approved, then returnBook on that request
\* each succeed and give (status, available_stock) = (Pending, 1), then
\* (Approved, 0) with due_date = approval time + 14 days, then (Completed, 1)
\* with return_date set.
FullLifecycle ==
    (calls + 3 <= MaxCalls) =>
        \A b \in DOMAIN books :
            ( /\ books[b].total_stock = 1
              /\ books[b].available_stock = 1
              /\ \A i \in DOMAIN requests : requests[i].book_id # b )
            => \A m \in {MemberA, MemberB} : \A n \in CreateNotes :
               \A o \in ApprovalOptionals : \A rn \in ReturnNotes :
               \A r \in ThreeClockReadings :
               \A id \in {Len(requests) + 1} :
               \A s1 \in {createBorrowRequest(users, books, requests,
                              [member_id |-> m, book_id |-> b, notes |-> n], r[1])} :
               \A s2 \in {updateBorrowRequestStatus(users, s1.books, s1.requests,
                              [id |-> id, status |-> Approved, notes |-> o[1],
                               approved_by |-> o[2]], r[2])} :
               \A s3 \in {returnBook(s2.books, s2.requests,
                              [request_id |-> id, notes |-> rn], r[3])} :
                   /\ s1.err = ""
                   /\ s1.requests[id].status = Pending
                   /\ s1.books[b].available_stock = 1
                   /\ s2.err = ""
                   /\ s2.requests[id].status = Approved
                   /\ s2.requests[id].due_date = r[2] + LoanDays
                   /\ s2.books[b].available_stock = 0
                   /\ s3.err = ""
                   /\ s3.requests[id].status = Completed
                   /\ s3.requests[id].return_date = r[3]
                   /\ s3.requests[id].return_date # Null
                   /\ s3.books[b].available_stock = 1

\* C25 happens: the run is the three calls of the lifecycle on the book with
\* one copy, and has ended with the request Completed and the copy back
FullLifecycleWitness ==
    /\ calls = 3
    /\ Len(requests) = 1
    /\ last.op = "returnBook"
    /\ last.err = ""
    /\ requests[1].status = Completed
    /\ requests[1].due_date = now + LoanDays
    /\ requests[1].return_date = now
    /\ books[requests[1].book_id].total_stock = 1
    /\ books[requests[1].book_id].available_stock = 1

(***************************************************************************)
(* The read handlers.                                                      *)
(***************************************************************************)
\* C26: getOverdueBooks returns exactly the requests with status Approved,
\* return_date null and due_date strictly earlier than the current time (a
\* request with return_date set is left out even if its due_date is past),
\* and changes no state.
OverdueAreApprovedUnreturnedPastDue ==
    \A t \in ClockReadings :
        \A out \in {getOverdueBooks(users, books, requests, t)} :
            /\ \A i \in DOMAIN requests :
                  i \in out.data <=>
                      ( /\ requests[i].status = Approved
                        /\ requests[i].return_date = Null
                        /\ requests[i].due_date # Null
                        /\ requests[i].due_date < t )
            /\ out.data \subseteq DOMAIN requests
            /\ \A i \in DOMAIN requests :
                  (requests[i].return_date # Null) => i \notin out.data
            /\ out.requests = requests
            /\ out.books = books

\* C26 happens: a request is Approved and not returned, due in 14 days: it is
\* not overdue on the day of its approval and is overdue 30 days later
OverdueWitness ==
    \E i \in DOMAIN requests :
        /\ requests[i].status = Approved
        /\ requests[i].due_date = LoanDays
        /\ i \notin getOverdueBooks(users, books, requests, 0).data
        /\ i \in getOverdueBooks(users, books, requests, 30).data

\* the requests that satisfy every filter the input has
SatisfyFilters(input) ==
    {i \in DOMAIN requests :
        /\ input.member_id # Undefined => requests[i].member_id = input.member_id
        /\ input.status # UndefinedText => requests[i].status = input.status}

\* C27: getBorrowRequests with optional filters member_id and status returns
\* only requests that satisfy every filter of the input; pagination.total is
\* the number of requests that satisfy them, pagination.totalPages is
\* ceil(total / limit), data holds at most limit entries (page 1 and limit
\* 10 when the input has none), and the call changes no state.
SearchReturnsFilteredPage ==
    \A input \in SearchInputs :
        \A out \in getBorrowRequests(users, books, requests, input) :
            /\ out.data \subseteq SatisfyFilters(input)
            /\ out.pagination.total = Cardinality(SatisfyFilters(input))
            /\ out.pagination.page =
                  IF input.page = Undefined THEN 1 ELSE input.page
            /\ out.pagination.limit =
                  IF input.limit = Undefined THEN 10 ELSE input.limit
            /\ out.pagination.totalPages * out.pagination.limit
                  >= out.pagination.total
            /\ (out.pagination.totalPages - 1) * out.pagination.limit
                  < out.pagination.total
            /\ Cardinality(out.data) <= out.pagination.limit
            /\ out.requests = requests
            /\ out.books = books

(***************************************************************************)
(* The requests as history.                                                *)
(***************************************************************************)
\* C28: no operation removes a borrow request or changes its member_id or
\* book_id: the set of request ids only grows, and each request keeps the
\* id, the member and the book it was created with.
RequestsKeepMemberAndBook ==
    [][ /\ Len(requests') >= Len(requests)
        /\ \A i \in DOMAIN requests :
              /\ requests'[i].id = requests[i].id
              /\ requests'[i].member_id = requests[i].member_id
              /\ requests'[i].book_id = requests[i].book_id ]_vars

\* C28 happens: a request has gone through approval and return, and a later
\* request has been added to the table
RequestsKeepMemberAndBookWitness ==
    /\ Len(requests) >= 2
    /\ requests[1].status = Completed
    /\ requests[1].return_date # Null
    /\ requests[1].id = 1
    /\ requests[1].member_id \in {MemberA, MemberB}
    /\ requests[2].id = 2

(***************************************************************************)
(* The user store.                                                         *)
(***************************************************************************)
\* the users table without the user id
WithoutUser(us, id) == [u \in DOMAIN us \ {id} |-> us[u]]

MemberNumberOfPosition(n) == <<"MEMBER", n \div 100, (n \div 10) % 10, n % 10>>

\* C30: createUser with role member assigns the member_number 'MEMBER'
\* followed by the zero-padded 3-digit position of the new member in
\* creation order (MEMBER001 for the first member, MEMBER002 for the second,
\* ...); createUser with role admin assigns member_number null.
MemberNumberIsCreationPosition ==
    [][ (calls' = calls + 1 /\ last'.op = "createUser" /\ last'.err = "") =>
            /\ userSeq' \in DOMAIN users'
            /\ users'[userSeq'].member_number =
                  IF users'[userSeq'].role = "member"
                  THEN MemberNumberOfPosition(membersCreated')
                  ELSE NullMemberNumber ]_vars

(***************************************************************************)
(* Transitions the admin call does not guard.                              *)
(***************************************************************************)
\* C31: updateBorrowRequestStatus does not check the request's current
\* status: a call with target Approved on a request that is already Approved
\* succeeds (the store refuses only an approved_by that is the id of no
\* user) and takes one more copy from the available_stock of the request's
\* book, the request staying Approved, so one request can hold more than one
\* copy.
ReapprovalTakesAnotherCopy ==
    CallLeft =>
        \A input \in UpdateInputsTo(Approved) : \A t \in ClockReadings :
            (input.id \in DOMAIN requests /\ requests[input.id].status = Approved) =>
                \A out \in {updateBorrowRequestStatus(users, books, requests, input, t)} :
                    LET b == requests[input.id].book_id IN
                    /\ out.err = IF ViolatesApproverKey(users, StatusUpdateData(input, t))
                                 THEN ForeignKeyError ELSE ""
                    /\ out.books[b].available_stock = books[b].available_stock - 1
                    /\ out.err = "" => out.requests[input.id].status = Approved

\* C31 happens: the only request has been approved twice and holds two
\* copies of its book
ReapprovalWitness ==
    /\ Len(requests) = 1
    /\ last.op = "updateBorrowRequestStatus"
    /\ last.err = ""
    /\ requests[1].status = Approved
    /\ requests[1].return_date = Null
    /\ books[requests[1].book_id].available_stock
           = books[requests[1].book_id].total_stock - 2

\* C32: updateBorrowRequestStatus with a target other than Approved or
\* Rejected (Pending or Completed) changes only the request's status, plus
\* notes and approved_by when they are supplied (and the updated_at stamp of
\* the row): it leaves approved_date, due_date, return_date, every other
\* field and request, and every book (its available_stock included) as they
\* were; a call that fails changes nothing.
OtherTargetsChangeStatusOnly ==
    CallLeft =>
        \A input \in UpdateInputsTo(Pending) \cup UpdateInputsTo(Completed) :
            \A t \in ClockReadings \ {now} :
            \A out \in {updateBorrowRequestStatus(users, books, requests, input, t)} :
                /\ out.books = books
                /\ out.err # "" => out.requests = requests
                /\ out.err = "" =>
                      /\ input.id \in DOMAIN requests
                      /\ DOMAIN out.requests = DOMAIN requests
                      /\ \A i \in DOMAIN requests \ {input.id} :
                             out.requests[i] = requests[i]
                      /\ out.requests[input.id] =
                             [requests[input.id] EXCEPT
                                 !.status = input.status,
                                 !.updated_at = t,
                                 !.notes = IF input.notes # UndefinedText
                                           THEN input.notes ELSE @,
                                 !.approved_by = IF input.approved_by # Undefined
                                                 THEN input.approved_by ELSE @]

\* C32 happens: the last call has set an Approved request back to Pending;
\* the request keeps its dates and the copy it holds
OtherTargetsWitness ==
    /\ last.op = "updateBorrowRequestStatus"
    /\ last.err = ""
    /\ \E i \in DOMAIN requests :
          /\ requests[i].status = Pending
          /\ requests[i].approved_date = now
          /\ requests[i].due_date = now + LoanDays
          /\ requests[i].return_date = Null
          /\ books[requests[i].book_id].available_stock
                 < books[requests[i].book_id].total_stock

(***************************************************************************)
(* A cancellation racing an approval.                                      *)
(***************************************************************************)
\* C33: a cancelBorrowRequest and an approval of the same Pending request
\* that run concurrently never leave the request Rejected while the
\* available_stock of its book has been decremented for it: once both calls
\* have returned, the request is not Rejected with a copy of its book taken
\* (in either serial order the request ends Approved).
ConcurrentCancelAndApprovalAreSerial ==
    \A p, q \in Procs :
        ( /\ p # q
          /\ ~InFlight(p) /\ ~InFlight(q)
          /\ procs[p].overlap /\ procs[q].overlap
          /\ procs[p].op = "cancelBorrowRequest"
          /\ procs[q].op = "updateBorrowRequestStatus"
          /\ procs[q].input.status = Approved
          /\ procs[p].input.requestId = procs[q].input.id
          /\ procs[p].err = "" /\ procs[q].err = "" )
        => LET r == requests[procs[q].input.id] IN
           ~( /\ r.status = Rejected
              /\ books[r.book_id].available_stock < books[r.book_id].total_stock )

\* C34: the guarded operations follow the state machine: returnBook changes
\* a request's status only from Approved to Completed and cancelBorrowRequest
\* only from Pending to Rejected; no statement of either ever changes the
\* status of a request that is in any other status.
GuardedOperationsFollowStateMachine ==
    [][ \A p \in Procs : \A i \in DOMAIN requests :
          (procs'[p] # procs[p] /\ requests'[i].status # requests[i].status) =>
              /\ procs[p].op = "returnBook" =>
                     (requests[i].status = Approved /\ requests'[i].status = Completed)
              /\ procs[p].op = "cancelBorrowRequest" =>
                     (requests[i].status = Pending /\ requests'[i].status = Rejected)
      ]_vars

\* C35: in every reachable state returnBook succeeds on every request whose
\* status is Approved (no request is Approved with return_date already set),
\* so every copy a request holds can be given back by a return.
ApprovedRequestsCanBeReturned ==
    \A i \in DOMAIN requests :
        requests[i].status = Approved =>
            /\ requests[i].return_date = Null
            /\ \A n \in ReturnNotes :
                  returnBook(books, requests, [request_id |-> i, notes |-> n], now).err = ""

(***************************************************************************)
(* What a ledger mutation leaves alone.                                    *)
(***************************************************************************)
\* the tables of out differ from the current ones in the record of request r
\* at most and, when stock is TRUE, in the available_stock (and the
\* updated_at stamp) of r's book
ChangesOnly(out, r, stock) ==
    /\ DOMAIN out.requests = DOMAIN requests
    /\ \A i \in DOMAIN requests \ {r} : out.requests[i] = requests[i]
    /\ DOMAIN out.books = DOMAIN books
    /\ \A b \in DOMAIN books :
          /\ out.books[b].total_stock = books[b].total_stock
          /\ out.books[b].status = books[b].status
          /\ (b # requests[r].book_id \/ ~stock) => out.books[b] = books[b]

\* C36: each successful ledger mutation on a request r (approve, reject,
\* return, cancel) changes only r's own record and, for approve and return,
\* the available_stock of r's book: every other request, every other book,
\* and every book's total_stock and status stay unchanged.
MutationsChangeOneRequestAndItsBook ==
    CallLeft =>
        /\ \A input \in UpdateInputsTo(Approved) \cup UpdateInputsTo(Rejected) :
              \A out \in {updateBorrowRequestStatus(users, books, requests, input, now)} :
                 out.err = "" => ChangesOnly(out, input.id, input.status = Approved)
        /\ \A input \in ReturnInputs :
              \A out \in {returnBook(books, requests, input, now)} :
                 out.err = "" => ChangesOnly(out, input.request_id, TRUE)
        /\ \A id \in RequestIdInputs : \A m \in UserIdInputs :
              \A out \in {cancelBorrowRequest(books, requests, id, m, now)} :
                 out.err = "" => ChangesOnly(out, id, FALSE)

\* C36 happens: the last call has approved one of two requests; the other
\* request is as it was created and the other book has all its copies
MutationsWitness ==
    /\ last.op = "updateBorrowRequestStatus"
    /\ last.err = ""
    /\ \E i, j \in DOMAIN requests :
          /\ requests[i].status = Approved
          /\ requests[j].status = Pending
          /\ requests[j].approved_date = Null
          /\ books[requests[i].book_id].available_stock
                 = books[requests[i].book_id].total_stock - 1
          /\ \E b \in DOMAIN books \ {requests[i].book_id} :
                 books[b].available_stock = books[b].total_stock

(***************************************************************************)
(* The user store and the ledger.                                          *)
(***************************************************************************)
\* C37: referential integrity: in every state reachable by createUser,
\* updateUser, deleteUser and the ledger operations, every borrow request's
\* member_id is the id of an existing user whose role is member, and its
\* book_id is the id of an existing book.
RequestsReferToMembersAndBooks ==
    \A i \in DOMAIN requests :
        /\ requests[i].member_id \in DOMAIN users
        /\ users[requests[i].member_id].role = "member"
        /\ requests[i].book_id \in DOMAIN books

\* C38: after any sequence of createUser, updateUser and deleteUser calls,
\* no two users with role member share the same member_number (a member
\* without a number, one made a member by updateUser, shares none).
MemberNumbersAreUnique ==
    \A u, v \in Members(users) :
        (u # v /\ users[u].member_number # NullMemberNumber)
            => users[u].member_number # users[v].member_number

\* C39: round trip between user creation and login: for every username and
\* password, after createUser stores the user, login with the same username
\* and password returns success = true with that user (the hash written by
\* createUser is the hash login compares against).
LoginAfterCreateUserSucceeds ==
    CallLeft =>
        \A input \in CreateUserInputs :
            \A out \in {createUser(users, userSeq, input, now)} :
                out.err = "" =>
                    \A response \in {login(out.users, [username |-> input.username,
                                                      password |-> input.password])} :
                        /\ response.success = TRUE
                        /\ response.user = <<WithoutPassword(out.result[1])>>

====
